---- MODULE Spec2Model ----
(***************************************************************************)
(* lyth-schema-bridge: the configuration validator (SchemaParser), the     *)
(* auth-model injection and the generation pipeline of                     *)
(* ProjectGenerator.generate, with the renderers' model iteration and the  *)
(* FileWriter they write through.                                          *)
(*                                                                         *)
(* JavaScript strings are sequences of one-character strings, so that      *)
(* trim() and toLowerCase() are computed and not assumed.  A property that *)
(* is absent (undefined) is UNDEF for a string and Undefined (the empty    *)
(* option) for an array.                                                   *)
(***************************************************************************)
EXTENDS Integers, Sequences, FiniteSets, TLC

VARIABLES config, pc, stages, dirs, files, rendered, error, log, run, start,
          prev, ioOk, vresult, prettierOk, cli, call

vars == <<config, pc, stages, dirs, files, rendered, error, log, run, start,
          prev, ioOk, vresult, prettierOk, cli, call>>

----------------------------------------------------------------------------
(* Bounds *)

\* pipeline specification: longest model list and field list of an input
MaxModels == 2
MaxFields == 1
\* pipeline specification: calls of generate on the same configuration object
MaxRuns == 2
\* validator specification: longest model list and field list of an input
VMaxModels == 2
VMaxFields == 2

----------------------------------------------------------------------------
(* JavaScript values *)

UNDEF == <<"undefined">>
Undefined == {}
Some(v) == {v}
Val(o) == CHOOSE v \in o : TRUE

S_User == <<"U", "s", "e", "r">>
S_user == <<"u", "s", "e", "r">>
S_Post == <<"P", "o", "s", "t">>
S_api == <<"a", "p", "i">>
S_title == <<"t", "i", "t", "l", "e">>
S_string == <<"s", "t", "r", "i", "n", "g">>
S_boolean == <<"b", "o", "o", "l", "e", "a", "n">>
S_date == <<"d", "a", "t", "e">>
S_email == <<"e", "m", "a", "i", "l">>
S_name == <<"n", "a", "m", "e">>
S_password == <<"p", "a", "s", "s", "w", "o", "r", "d">>
S_emailVerified == <<"e", "m", "a", "i", "l", "V", "e", "r", "i", "f", "i", "e", "d">>
S_verificationToken == <<"v", "e", "r", "i", "f", "i", "c", "a", "t", "i", "o", "n",
                         "T", "o", "k", "e", "n">>
S_resetPasswordToken == <<"r", "e", "s", "e", "t", "P", "a", "s", "s", "w", "o", "r", "d",
                          "T", "o", "k", "e", "n">>
S_resetPasswordExpires == <<"r", "e", "s", "e", "t", "P", "a", "s", "s", "w", "o", "r", "d",
                            "E", "x", "p", "i", "r", "e", "s">>

UpperLetters == <<"A", "B", "C", "D", "E", "F", "G", "H", "I", "J", "K", "L", "M",
                  "N", "O", "P", "Q", "R", "S", "T", "U", "V", "W", "X", "Y", "Z">>
LowerLetters == <<"a", "b", "c", "d", "e", "f", "g", "h", "i", "j", "k", "l", "m",
                  "n", "o", "p", "q", "r", "s", "t", "u", "v", "w", "x", "y", "z">>

LowerChar(c) ==
  IF \E i \in DOMAIN UpperLetters : UpperLetters[i] = c
  THEN LowerLetters[CHOOSE i \in DOMAIN UpperLetters : UpperLetters[i] = c]
  ELSE c

\* String.prototype.toLowerCase
ToLowerCase(s) == [i \in 1..Len(s) |-> LowerChar(s[i])]

WhiteSpace == {" ", "\t", "\n"}

RECURSIVE TrimStart(_)
TrimStart(s) ==
  IF s # <<>> /\ Head(s) \in WhiteSpace THEN TrimStart(Tail(s)) ELSE s

RECURSIVE TrimEnd(_)
TrimEnd(s) ==
  IF s # <<>> /\ s[Len(s)] \in WhiteSpace THEN TrimEnd(SubSeq(s, 1, Len(s) - 1)) ELSE s

\* String.prototype.trim
Trim(s) == TrimEnd(TrimStart(s))

\* !x for a string-valued property: undefined and "" are falsy
Falsy(x) == x = UNDEF \/ x = <<>>

----------------------------------------------------------------------------
(* SchemaParser *)

NoError == [type |-> "none", rule |-> "none", model |-> UNDEF]
\* new Error(message): the rule the message states and the model name it interpolates
Err(rule, modelName) == [type |-> "Error", rule |-> rule, model |-> modelName]
\* a TypeError raised by the runtime, not by a validation rule
TypeErr(what) == [type |-> "TypeError", rule |-> what, model |-> UNDEF]

\* the body of model.fields.forEach: the first field that throws decides
RECURSIVE validateFields(_, _)
validateFields(fields, modelName) ==
  IF fields = <<>> THEN NoError
  ELSE LET field == Head(fields) IN
       IF Falsy(field.name) \/ Trim(field.name) = <<>>
       THEN Err("FieldNameRequired", modelName)
       ELSE IF Falsy(field.type) \/ Trim(field.type) = <<>>
       THEN Err("FieldTypeRequired", modelName)
       ELSE validateFields(Tail(fields), modelName)

validateModel_noFieldsCheck(model) ==
  IF Falsy(model.name) \/ Trim(model.name) = <<>>
  THEN Err("ModelNameRequired", UNDEF)
  ELSE IF model.fields = Undefined
  THEN Err("ModelNoFields", model.name)
  ELSE validateFields(Val(model.fields), model.name)

validateModel(model) ==
  IF Falsy(model.name) \/ Trim(model.name) = <<>>
  THEN Err("ModelNameRequired", UNDEF)
  ELSE IF model.fields = Undefined \/ Len(Val(model.fields)) = 0
  THEN Err("ModelNoFields", model.name)
  ELSE validateFields(Val(model.fields), model.name)

\* config.models.forEach(model => this.validateModel(model))
RECURSIVE validateModels(_)
validateModels(models) ==
  IF models = <<>> THEN NoError
  ELSE LET e == validateModel(Head(models)) IN
       IF e # NoError THEN e ELSE validateModels(Tail(models))

validationConfig_lengthTruthy(cfg) ==
  IF Falsy(cfg.projectName) \/ Trim(cfg.projectName) = <<>>
  THEN Err("ProjectNameRequired", UNDEF)
  ELSE IF cfg.models # Undefined /\ Len(Val(cfg.models)) # 0
  THEN Err("NoModels", UNDEF)
  ELSE IF cfg.models = Undefined
  THEN TypeErr("config.models.forEach")
  ELSE validateModels(Val(cfg.models))

validationConfig_modelsFirst(cfg) ==
  IF cfg.models # Undefined /\ Len(Val(cfg.models)) = 0
  THEN Err("NoModels", UNDEF)
  ELSE IF Falsy(cfg.projectName) \/ Trim(cfg.projectName) = <<>>
  THEN Err("ProjectNameRequired", UNDEF)
  ELSE IF cfg.models = Undefined
  THEN TypeErr("config.models.forEach")
  ELSE validateModels(Val(cfg.models))

\* the error validationConfig throws, NoError when it returns true
validationConfig(cfg) ==
  IF Falsy(cfg.projectName) \/ Trim(cfg.projectName) = <<>>
  THEN Err("ProjectNameRequired", UNDEF)
  ELSE IF cfg.models # Undefined /\ Len(Val(cfg.models)) = 0
  THEN Err("NoModels", UNDEF)
  ELSE IF cfg.models = Undefined
  THEN TypeErr("config.models.forEach")
  ELSE validateModels(Val(cfg.models))

----------------------------------------------------------------------------
(* Inputs: SchemaField, SchemaModel, ProjectConfig *)

\* unique and timestamps are read for truthiness only: absent is FALSE.
\* default is "absent" or names the literal: "false" is the boolean false,
\* "'false'" the string 'false'.
Field(n, t, req, uniq, def) ==
  [name |-> n, type |-> t, required |-> req, unique |-> uniq, default |-> def]

Model(n, fs, ts) == [name |-> n, fields |-> fs, timestamps |-> ts]

Config(pn, api, auth, ms) ==
  [projectName |-> pn, apiType |-> api, database |-> "postgresql",
   authentication |-> auth, models |-> ms]

\* all sequences over S of length at most n
SeqsUpTo(S, n) == UNION {[1..k -> S] : k \in 0..n}

ApiTypes == {"rest", "graphql", "both"}

GoodField == Field(S_title, S_string, TRUE, FALSE, "absent")

\* validator inputs: a well-formed field, one with neither name nor type, one
\* with a whitespace-only type
VFields ==
  {GoodField,
   Field(UNDEF, <<>>, TRUE, FALSE, "absent"),
   Field(S_title, <<" ">>, TRUE, FALSE, "absent")}
VFieldLists == {Undefined} \cup {Some(fs) : fs \in SeqsUpTo(VFields, VMaxFields)}
VModels == {Model(n, fs, FALSE) : n \in {UNDEF, <<" ">>, S_Post}, fs \in VFieldLists}
VModelLists == {Undefined} \cup {Some(ms) : ms \in SeqsUpTo(VModels, VMaxModels)}
VConfigs ==
  {Config(pn, "rest", FALSE, ms) : pn \in {UNDEF, <<>>, <<" ">>, S_api}, ms \in VModelLists}

\* pipeline inputs
PFieldLists == {Some(fs) : fs \in SeqsUpTo({GoodField}, MaxFields)}
PModels == {Model(n, fs, FALSE) : n \in {S_User, S_user, S_Post}, fs \in PFieldLists}
PModelLists == {Undefined} \cup {Some(ms) : ms \in SeqsUpTo(PModels, MaxModels)}
PConfigs ==
  {Config(pn, api, auth, ms) :
     pn \in {<<>>, S_api}, api \in ApiTypes, auth \in BOOLEAN, ms \in PModelLists}

----------------------------------------------------------------------------
(* AuthGenerator.generateAuthModel and the injection test of generate *)

generateAuthModel ==
  Model(S_User,
        Some(<<Field(S_email, S_string, TRUE, TRUE, "absent"),
               Field(S_name, S_string, TRUE, FALSE, "absent"),
               Field(S_password, S_string, TRUE, FALSE, "absent"),
               Field(S_emailVerified, S_boolean, TRUE, FALSE, "false"),
               Field(S_verificationToken, S_string, FALSE, FALSE, "absent"),
               Field(S_resetPasswordToken, S_string, FALSE, FALSE, "absent"),
               Field(S_resetPasswordExpires, S_date, FALSE, FALSE, "absent")>>),
        FALSE)

HasUserModel_lastOnly(models) ==
  models # <<>> /\ models[Len(models)].name = S_User

\* config.models.find(m => m.name === 'User')
HasUserModel(models) == \E i \in DOMAIN models : models[i].name = S_User

NeedsAuthModel_noFind(cfg) == cfg.authentication

NeedsAuthModel_noFlag(cfg) == ~HasUserModel(Val(cfg.models))

\* config.authentication && !config.models.find(...)
NeedsAuthModel(cfg) == cfg.authentication /\ ~HasUserModel(Val(cfg.models))

unshiftAuthModel_push(models) == Append(models, generateAuthModel)

\* config.models.unshift(AuthGenerator.generateAuthModel())
unshiftAuthModel(models) == <<generateAuthModel>> \o models

----------------------------------------------------------------------------
(* The stages of ProjectGenerator.generate *)

\* skip of the generic CRUD/API renderers: model.name === 'User' && authentication
IsAuthUser(model, withAuth) == model.name = S_User /\ withAuth

RestSelected(cfg) == cfg.apiType = "rest" \/ cfg.apiType = "both"
GraphQLSelected(cfg) == cfg.apiType = "graphql" \/ cfg.apiType = "both"

AfterApi(cfg) == IF cfg.authentication THEN "RenderAuthSystem" ELSE "RenderProjectFiles"

NextStage_dirsFirst(stage, cfg) ==
  CASE stage = "Validate" -> "CreateDirectories"
    [] stage = "CreateDirectories" ->
         IF NeedsAuthModel(cfg) THEN "InjectAuthModel" ELSE "RenderSchema"
    [] stage = "InjectAuthModel" -> "RenderSchema"
    [] OTHER -> "Failed"

\* the statement of generate that follows a completed stage
NextStage(stage, cfg) ==
  CASE stage = "Validate" ->
         IF NeedsAuthModel(cfg) THEN "InjectAuthModel" ELSE "CreateDirectories"
    [] stage = "InjectAuthModel" -> "CreateDirectories"
    [] stage = "CreateDirectories" -> "RenderSchema"
    [] stage = "RenderSchema" -> "RenderValidation"
    [] stage = "RenderValidation" -> "RenderAPIDoc"
    [] stage = "RenderAPIDoc" -> "RenderCrudLayer"
    [] stage = "RenderCrudLayer" ->
         IF RestSelected(cfg) THEN "RenderRestApi"
         ELSE IF GraphQLSelected(cfg) THEN "RenderGraphQLApi"
         ELSE AfterApi(cfg)
    [] stage = "RenderRestApi" ->
         IF GraphQLSelected(cfg) THEN "RenderGraphQLApi" ELSE AfterApi(cfg)
    [] stage = "RenderGraphQLApi" -> AfterApi(cfg)
    [] stage = "RenderAuthSystem" -> "RenderProjectFiles"
    [] stage = "RenderProjectFiles" -> "RenderEntrypoint"
    [] stage = "RenderEntrypoint" -> "FormatProject"
    [] stage = "FormatProject" -> "Done"
    [] stage = "Done" -> "Finished"

\* the Logger line that follows a completed stage
StageLog(stage) ==
  CASE stage = "InjectAuthModel" -> "Added User model for authentication"
    [] stage = "CreateDirectories" -> "Created directory structure"
    [] stage = "RenderSchema" -> "Generated prisma schema"
    [] stage = "RenderValidation" -> "Generated Zod schemas"
    [] stage = "RenderAPIDoc" -> "Generated OpenAPI spec"
    [] stage = "RenderCrudLayer" -> "Generated repositories and use cases"
    [] stage = "RenderRestApi" -> "Generated REST API"
    [] stage = "RenderGraphQLApi" -> "Generated GraphQL API"
    [] stage = "RenderAuthSystem" -> "Generated authentication system"
    [] stage = "RenderProjectFiles" -> "Generated configuration files"
    [] stage = "RenderEntrypoint" -> "Generated main entrypoint"
    [] stage = "FormatProject" -> "Code formatted successfully"
    [] stage = "Done" -> "Happy coding!"

----------------------------------------------------------------------------
(* Artifacts.  A path is its directory (segments below the output          *)
(* directory), the part written from a model name, the fixed rest of the   *)
(* file name and the extension.  A rendered text is identified by the      *)
(* renderer and everything the renderer reads: renderers are template      *)
(* functions of their arguments.                                           *)

Path(dir, base, suffix, ext) == [dir |-> dir, base |-> base, suffix |-> suffix, ext |-> ext]

Content(gen, models, name, opts) ==
  [gen |-> gen, models |-> models, name |-> name, opts |-> opts, fmt |-> "raw"]

NoPath == Path(<<>>, <<>>, "", "")
NoContent == Content("", <<>>, UNDEF, <<>>)

WriteOp(path, content) == [op |-> "write", path |-> path, content |-> content, error |-> NoError]
ThrowOp(e) == [op |-> "throw", path |-> NoPath, content |-> NoContent, error |-> e]
FormatOp == [op |-> "formatProject", path |-> NoPath, content |-> NoContent, error |-> NoError]
SuccessOp == [op |-> "success", path |-> NoPath, content |-> NoContent, error |-> NoError]

BoolOpt(b, tag) == IF b THEN tag ELSE "no-" \o tag

\* concatenation of a sequence of op lists, in order
RECURSIVE Flatten(_)
Flatten(lists) ==
  IF lists = <<>> THEN <<>> ELSE Head(lists) \o Flatten(Tail(lists))

\* models.forEach(f): the op lists f(models[1]), f(models[2]), ... one after the other
ForEach(models, f(_)) == Flatten([i \in 1..Len(models) |-> f(models[i])])

----------------------------------------------------------------------------
(* The models each renderer iterates *)

NotAuthUser(models, withAuth) == SelectSeq(models, LAMBDA m : ~IsAuthUser(m, withAuth))

\* PrismaGenerator.generate: config.models.map(generateModel)
PrismaModels(models) == models
\* generateZodSchemas: config.models.forEach, no skip
ZodModels(models) == models
\* OpenAPIGenerator.generatePaths: skips User when withAuth
OpenAPIPathModels(models, withAuth) == NotAuthUser(models, withAuth)
\* OpenAPIGenerator.generateSchemas: every model
OpenAPISchemaModels(models) == models
\* generateCrudLayer: skips User when authentication
CrudModels(models, withAuth) == NotAuthUser(models, withAuth)
\* generateRestApi: controllers and routes
RestModels(models, withAuth) == NotAuthUser(models, withAuth)
\* RestApiGenerator.generateExpressApp: filter(m.name !== "User" || !withAuth)
ExpressAppModels(models, withAuth) ==
  SelectSeq(models, LAMBDA m : m.name # S_User \/ ~withAuth)
\* GraphQLGenerator.generateTypeDefs(models): types, queries and mutations of
\* every model; the method has no authentication parameter
TypeDefsModels(models) == models
\* generateGraphQLApi: resolvers
ResolverModels(models, withAuth) == NotAuthUser(models, withAuth)
\* GraphQLGenerator.generateApolloServer: filter(m.name !== "User" || !withAuth)
ApolloServerModels(models, withAuth) ==
  SelectSeq(models, LAMBDA m : m.name # S_User \/ ~withAuth)

----------------------------------------------------------------------------
(* FileWriter and CodeFormatter.  The file system is the state record      *)
(* [dirs, files, rendered, error, log, io]; error is the exception in      *)
(* flight.                                                                 *)

\* a directory and all its ancestors, the output directory <<>> included
Ancestors(dir) == {SubSeq(dir, 1, k) : k \in 0..Len(dir)}

\* FileWriter.createDirectory: mkdirSync(recursive) unless the path exists
createDirectory(st, dir) ==
  IF dir \in st.dirs THEN st
  ELSE IF st.io THEN [st EXCEPT !.dirs = @ \cup Ancestors(dir)]
  ELSE [st EXCEPT !.error = [type |-> "Error", rule |-> "mkdirSync", model |-> UNDEF]]

\* fs.writeFileSync: creates or replaces the file
writeFileSync(fileSet, path, content) ==
  {f \in fileSet : f.path # path} \cup {[path |-> path, content |-> content]}

\* FileWriter.writeFile(filePath, content, format = true).  With format, the
\* async formatByExtension hands back a Promise, not awaited, and
\* normalizeWhitespace calls .replace on it: a TypeError before
\* fs.writeFileSync is reached.
writeFile(st, path, content, format) ==
  LET st1 == [st EXCEPT !.rendered = Append(@, [path |-> path, content |-> content])]
      st2 == createDirectory(st1, path.dir)
  IN IF st2.error # NoError THEN st2
     ELSE IF format THEN [st2 EXCEPT !.error = TypeErr("code.replace")]
     ELSE [st2 EXCEPT !.files = writeFileSync(@, path, content)]

\* CodeFormatter.formatProject: every .ts, .js and .json file under the
\* project is read, formatted and written back when the text changed.  When
\* prettier.format throws, formatTypeScript, formatJavaScript and formatJSON
\* catch it, warn and return the text as it was: nothing is written back.
formatProject(st) ==
  IF st.prettier
  THEN [st EXCEPT
          !.files = {IF f.path.ext \in {"ts", "js", "json"}
                     THEN [f EXCEPT !.content.fmt = "prettier"] ELSE f : f \in @},
          !.log = Append(@, "Formatted files")]
  ELSE [st EXCEPT
          !.log = IF \E f \in st.files : f.path.ext \in {"ts", "js", "json"}
                  THEN @ \o <<"Warning: Could not format", "Formatted files">>
                  ELSE Append(@, "Formatted files")]

ExecOp(o, st) ==
  CASE o.op = "write" -> writeFile(st, o.path, o.content, TRUE)
    [] o.op = "throw" -> [st EXCEPT !.error = o.error]
    [] o.op = "formatProject" -> formatProject(st)
    [] o.op = "success" -> [st EXCEPT !.log = Append(@, "Project generated successfully!")]

\* the statements of a stage in order; an exception ends the stage
RECURSIVE RunOps(_, _)
RunOps(ops, st) ==
  IF ops = <<>> \/ st.error # NoError THEN st
  ELSE RunOps(Tail(ops), ExecOp(Head(ops), st))

----------------------------------------------------------------------------
(* What each stage of generate does, as the list of its statements *)

\* createDirectoryStructure: dirs, in order
ProjectDirs ==
  << <<"prisma">>,
     <<"src", "domain", "entities">>,
     <<"src", "domain", "repositories">>,
     <<"src", "application", "use-cases">>,
     <<"src", "application", "dto">>,
     <<"src", "application", "services">>,
     <<"src", "infrastructure", "database", "repositories">>,
     <<"src", "infrastructure", "http", "express">>,
     <<"src", "infrastructure", "http", "graphql">>,
     <<"src", "presentation", "rest", "controllers">>,
     <<"src", "presentation", "rest", "routes">>,
     <<"src", "presentation", "rest", "middlewares">>,
     <<"src", "presentation", "graphql", "resolvers">>,
     <<"src", "docs">> >>

RECURSIVE createDirectories(_, _)
createDirectories(list, st) ==
  IF list = <<>> \/ st.error # NoError THEN st
  ELSE createDirectories(Tail(list), createDirectory(st, Head(list)))

PrismaSchemaOps(cfg) ==
  << WriteOp(Path(<<"prisma">>, <<>>, "schema", "prisma"),
             Content("PrismaGenerator.generate", PrismaModels(Val(cfg.models)), UNDEF,
                     <<cfg.database>>)) >>

ZodSchemasOps(cfg) ==
  LET one(m) ==
        << WriteOp(Path(<<"src", "application", "dto">>, ToLowerCase(m.name), ".dto", "ts"),
                   Content("ZodGenerator.generateDTOFile", <<m>>, UNDEF, <<>>)) >>
  IN ForEach(ZodModels(Val(cfg.models)), one)

OpenAPISpecOps(cfg) ==
  << WriteOp(Path(<<"src", "docs">>, <<>>, "openapi", "json"),
             Content("OpenAPIGenerator.generate", OpenAPISchemaModels(Val(cfg.models)),
                     cfg.projectName, <<BoolOpt(cfg.authentication, "auth")>>)) >>

\* generateCrudLayer calls CrudGenerator.generateRepositoryImpl and
\* CrudGenerator.generateUseCases; CrudGenerator defines
\* generateRespositoryImpl and generateUseCase: each call is a TypeError
CrudLayerOps(cfg) ==
  LET one(m) ==
        << WriteOp(Path(<<"src", "domain", "repositories">>, m.name, "Repository", "ts"),
                   Content("CrudGenerator.generateRepository", <<m>>, UNDEF, <<>>)),
           ThrowOp(TypeErr("CrudGenerator.generateRepositoryImpl")),
           ThrowOp(TypeErr("CrudGenerator.generateUseCases")),
           WriteOp(Path(<<"src", "domain", "entities">>, m.name, "Entity", "ts"),
                   Content("CrudGenerator.generateEntity", <<m>>, UNDEF, <<>>)) >>
  IN ForEach(CrudModels(Val(cfg.models), cfg.authentication), one)

RestApiOps(cfg) ==
  LET one(m) ==
        << WriteOp(Path(<<"src", "presentation", "rest", "controllers">>, m.name,
                        "Controller", "ts"),
                   Content("RestApiGenerator.generateController", <<m>>, UNDEF, <<>>)),
           WriteOp(Path(<<"src", "presentation", "rest", "routes">>, ToLowerCase(m.name),
                        ".routes", "ts"),
                   Content("RestApiGenerator.generateRoutes", <<m>>, UNDEF, <<>>)) >>
  IN ForEach(RestModels(Val(cfg.models), cfg.authentication), one)
     \o << WriteOp(Path(<<"src", "infrastructure", "http", "express">>, <<>>, "app", "ts"),
                   Content("RestApiGenerator.generateExpressApp",
                           ExpressAppModels(Val(cfg.models), cfg.authentication), UNDEF,
                           <<BoolOpt(cfg.authentication, "auth")>>)),
           WriteOp(Path(<<"src", "presentation", "rest", "middlewares">>, <<>>,
                        "error.middleware", "ts"),
                   Content("RestApiGenerator.generateErrorMiddleware", <<>>, UNDEF, <<>>)) >>

GraphQLApiOps(cfg) ==
  LET one(m) ==
        << WriteOp(Path(<<"src", "presentation", "graphql", "resolvers">>,
                        ToLowerCase(m.name), ".resolvers", "ts"),
                   Content("GraphQLGenerator.generateResolvers", <<m>>, UNDEF, <<>>)) >>
  IN << WriteOp(Path(<<"src", "presentation", "graphql">>, <<>>, "typeDefs", "ts"),
                Content("GraphQLGenerator.generateTypeDefs", TypeDefsModels(Val(cfg.models)),
                        UNDEF, <<>>)) >>
     \o ForEach(ResolverModels(Val(cfg.models), cfg.authentication), one)
     \o << WriteOp(Path(<<"src", "infrastructure", "http", "graphql">>, <<>>, "server", "ts"),
                   Content("GraphQLGenerator.generateApolloServer",
                           ApolloServerModels(Val(cfg.models), cfg.authentication), UNDEF,
                           <<BoolOpt(cfg.authentication, "auth")>>)) >>

AuthSystemOps ==
  << WriteOp(Path(<<"src", "application", "services">>, <<>>, "AuthService", "ts"),
             Content("AuthGenerator.generateAuthService", <<>>, UNDEF, <<>>)),
     WriteOp(Path(<<"src", "presentation", "rest", "controllers">>, <<>>, "AuthController", "ts"),
             Content("AuthGenerator.generateAuthController", <<>>, UNDEF, <<>>)),
     WriteOp(Path(<<"src", "presentation", "rest", "middlewares">>, <<>>, "auth.middleware", "ts"),
             Content("AuthGenerator.generateAuthMiddleware", <<>>, UNDEF, <<>>)),
     WriteOp(Path(<<"src", "presentation", "rest", "routes">>, <<>>, "auth.routes", "ts"),
             Content("AuthGenerator.generateAuthRoutes", <<>>, UNDEF, <<>>)) >>

ConfigFilesOps(cfg) ==
  << WriteOp(Path(<<>>, <<>>, "package", "json"),
             Content("generatePackageJson", <<>>, cfg.projectName,
                     <<BoolOpt(cfg.authentication, "auth"), cfg.apiType>>)),
     WriteOp(Path(<<>>, <<>>, "tsconfig", "json"),
             Content("generateTsConfig", <<>>, UNDEF, <<>>)),
     WriteOp(Path(<<>>, <<>>, ".env", "example"),
             Content("generateEnvExample", <<>>, UNDEF,
                     <<cfg.database, BoolOpt(cfg.authentication, "auth")>>)),
     WriteOp(Path(<<>>, <<>>, "", "gitignore"),
             Content("generateGitignore", <<>>, UNDEF, <<>>)),
     WriteOp(Path(<<>>, <<>>, "README", "md"),
             Content("generateReadme", <<>>, cfg.projectName,
                     <<cfg.apiType, BoolOpt(cfg.authentication, "auth")>>)) >>

MainFileOps(cfg) ==
  << WriteOp(Path(<<"src">>, <<>>, "main", "ts"),
             Content("generateMainFile", <<>>, UNDEF, <<cfg.apiType>>)) >>

\* the statements of the stage generate is at
StageOps(stage, cfg) ==
  CASE stage = "RenderSchema" -> PrismaSchemaOps(cfg)
    [] stage = "RenderValidation" -> ZodSchemasOps(cfg)
    [] stage = "RenderAPIDoc" -> OpenAPISpecOps(cfg)
    [] stage = "RenderCrudLayer" -> CrudLayerOps(cfg)
    [] stage = "RenderRestApi" -> RestApiOps(cfg)
    [] stage = "RenderGraphQLApi" -> GraphQLApiOps(cfg)
    [] stage = "RenderAuthSystem" -> AuthSystemOps
    [] stage = "RenderProjectFiles" -> ConfigFilesOps(cfg)
    [] stage = "RenderEntrypoint" -> MainFileOps(cfg)
    [] stage = "FormatProject" -> <<FormatOp>>
    [] stage = "Done" -> <<SuccessOp>>

OpStages ==
  {"RenderSchema", "RenderValidation", "RenderAPIDoc", "RenderCrudLayer", "RenderRestApi",
   "RenderGraphQLApi", "RenderAuthSystem", "RenderProjectFiles", "RenderEntrypoint",
   "FormatProject", "Done"}

----------------------------------------------------------------------------
(* State.  config is the caller's configuration object, shared by every    *)
(* call of generate on it; dirs and files are the output directory.  pc is *)
(* the stage generate is about to execute, "Finished" after it returned    *)
(* and "Failed" after it threw error.  Instrumentation: stages lists the   *)
(* stages of this call that were started, rendered the (path, text) pairs  *)
(* handed to FileWriter.writeFile in this call, start the configuration    *)
(* and output directory when the call began, prev the outcome of the       *)
(* previous call.  ioOk: whether mkdirSync succeeds in this environment;    *)
(* prettierOk: whether prettier.format succeeds on the generated texts.    *)
(* vresult is the outcome of a direct call of validationConfig.  cli is    *)
(* the generate command around the call: whether the process has exited,   *)
(* its exit code and the error it reported.  call is a direct call of a    *)
(* pure function: its name, argument and result.                           *)

FsState == [dirs |-> dirs, files |-> files, rendered |-> rendered, error |-> NoError,
            log |-> log, io |-> ioOk, prettier |-> prettierOk]

\* the process is running: it has not exited and reported no error
NoExit == [exited |-> FALSE, code |-> 0, reported |-> NoError]

\* no direct call of a pure function
NoCall == [fn |-> "none", arg |-> <<>>, result |-> <<>>]

NoPrev == [models |-> Undefined, rendered |-> <<>>, stages |-> <<>>, pc |-> "none"]

Init ==
  /\ config \in PConfigs
  /\ ioOk \in BOOLEAN
  /\ pc = "Validate"
  /\ stages = <<>>
  /\ dirs = {}
  /\ files = {}
  /\ rendered = <<>>
  /\ error = NoError
  /\ log = <<>>
  /\ run = 1
  /\ start = [config |-> config, dirs |-> {}, files |-> {}]
  /\ prev = NoPrev
  /\ vresult = NoError
  /\ prettierOk \in BOOLEAN
  /\ cli = NoExit
  /\ call = NoCall

Validate_dirsBeforeValidation ==
  /\ pc = "Validate"
  /\ LET e == validationConfig(config) IN
       /\ error' = e
       /\ pc' = IF e # NoError THEN "Failed" ELSE NextStage("Validate", config)
  /\ dirs' = createDirectories(ProjectDirs, FsState).dirs
  /\ stages' = Append(stages, "Validate")
  /\ log' = Append(log, "Starting project generation...")
  /\ UNCHANGED <<config, files, rendered, run, start, prev, ioOk, vresult, prettierOk, cli, call>>

\* generate, line 21 to 24: SchemaParser.validationConfig(config)
Validate ==
  /\ pc = "Validate"
  /\ LET e == validationConfig(config) IN
       /\ error' = e
       /\ pc' = IF e # NoError THEN "Failed" ELSE NextStage("Validate", config)
  /\ stages' = Append(stages, "Validate")
  /\ log' = Append(log, "Starting project generation...")
  /\ UNCHANGED <<config, dirs, files, rendered, run, start, prev, ioOk, vresult, prettierOk, cli, call>>

\* generate, line 27 to 30
InjectAuthModel ==
  /\ pc = "InjectAuthModel"
  /\ config' = [config EXCEPT !.models = Some(unshiftAuthModel(Val(@)))]
  /\ pc' = NextStage("InjectAuthModel", config')
  /\ stages' = Append(stages, "InjectAuthModel")
  /\ log' = Append(log, StageLog("InjectAuthModel"))
  /\ UNCHANGED <<dirs, files, rendered, error, run, start, prev, ioOk, vresult, prettierOk, cli, call>>

\* generate, line 33 to 34: createDirectoryStructure(outputDir)
CreateDirectories ==
  /\ pc = "CreateDirectories"
  /\ LET st == createDirectories(ProjectDirs, FsState) IN
       /\ dirs' = st.dirs
       /\ error' = st.error
       /\ pc' = IF st.error # NoError THEN "Failed"
                ELSE NextStage("CreateDirectories", config)
       /\ log' = IF st.error # NoError THEN log
                 ELSE Append(log, StageLog("CreateDirectories"))
  /\ stages' = Append(stages, "CreateDirectories")
  /\ UNCHANGED <<config, files, rendered, run, start, prev, ioOk, vresult, prettierOk, cli, call>>

RunStage_swallowError ==
  /\ pc \in OpStages
  /\ LET st == RunOps(StageOps(pc, config), FsState) IN
       /\ dirs' = st.dirs
       /\ files' = st.files
       /\ rendered' = st.rendered
       /\ error' = st.error
       /\ pc' = NextStage(pc, config)
       /\ log' = Append(st.log, StageLog(pc))
  /\ stages' = Append(stages, pc)
  /\ UNCHANGED <<config, run, start, prev, ioOk, vresult, prettierOk, cli, call>>

\* generate, line 37 to 83: the stage at pc, its statements executed in order
RunStage ==
  /\ pc \in OpStages
  /\ LET st == RunOps(StageOps(pc, config), FsState) IN
       /\ dirs' = st.dirs
       /\ files' = st.files
       /\ rendered' = st.rendered
       /\ error' = st.error
       /\ pc' = IF st.error # NoError THEN "Failed" ELSE NextStage(pc, config)
       /\ log' = IF st.error # NoError THEN st.log ELSE Append(st.log, StageLog(pc))
  /\ stages' = Append(stages, pc)
  /\ UNCHANGED <<config, run, start, prev, ioOk, vresult, prettierOk, cli, call>>

\* the caller calls generate again with the same configuration object and
\* output directory
Rerun ==
  /\ pc \in {"Finished", "Failed"}
  /\ ~cli.exited
  /\ run < MaxRuns
  /\ run' = run + 1
  /\ prev' = [models |-> config.models, rendered |-> rendered, stages |-> stages, pc |-> pc]
  /\ start' = [config |-> config, dirs |-> dirs, files |-> files]
  /\ pc' = "Validate"
  /\ stages' = <<>>
  /\ rendered' = <<>>
  /\ error' = NoError
  /\ log' = <<>>
  /\ UNCHANGED <<config, dirs, files, ioOk, vresult, prettierOk, cli, call>>

ReportFailure_exitZero ==
  /\ pc = "Failed"
  /\ ~cli.exited
  /\ cli' = [exited |-> TRUE, code |-> 0, reported |-> error]
  /\ log' = Append(log, "Failed to generate project")
  /\ UNCHANGED <<config, pc, stages, dirs, files, rendered, error, run, start, prev, ioOk,
                 vresult, prettierOk, call>>

\* the generate command, catch block: Logger.error("Failed to generate
\* project", error) prints the message and the error's stack, process.exit(1)
ReportFailure ==
  /\ pc = "Failed"
  /\ ~cli.exited
  /\ cli' = [exited |-> TRUE, code |-> 1, reported |-> error]
  /\ log' = Append(log, "Failed to generate project")
  /\ UNCHANGED <<config, pc, stages, dirs, files, rendered, error, run, start, prev, ioOk,
                 vresult, prettierOk, call>>

Next == Validate \/ InjectAuthModel \/ CreateDirectories \/ RunStage \/ Rerun \/ ReportFailure

Spec == Init /\ [][Next]_vars

----------------------------------------------------------------------------
(* A direct call of SchemaParser.validationConfig on any configuration *)

VInit ==
  /\ config \in VConfigs
  /\ pc = "validationConfig"
  /\ stages = <<>>
  /\ dirs = {}
  /\ files = {}
  /\ rendered = <<>>
  /\ error = NoError
  /\ log = <<>>
  /\ run = 1
  /\ start = [config |-> config, dirs |-> {}, files |-> {}]
  /\ prev = NoPrev
  /\ ioOk = TRUE
  /\ vresult = NoError
  /\ prettierOk = TRUE
  /\ cli = NoExit
  /\ call = NoCall

CallValidationConfig ==
  /\ pc = "validationConfig"
  /\ vresult' = validationConfig(config)
  /\ pc' = "returned"
  /\ UNCHANGED <<config, stages, dirs, files, rendered, error, log, run, start, prev, ioOk,
               prettierOk, cli, call>>

\* the member the validate command calls on SchemaParser, a class whose only
\* validators are validationConfig and validateModel
validateConfig(cfg) == TypeErr("SchemaParser.validateConfig")

\* the action of the CLI command validate on a configuration file: a missing
\* file is reported and exits with 1; otherwise the file is loaded, the call
\* of SchemaParser.validateConfig throws, the success line is skipped and
\* the catch block reports and exits with 1
ValidateCommand ==
  /\ pc = "validationConfig"
  /\ \E exists \in BOOLEAN :
       IF ~exists
       THEN /\ log' = Append(log, "Config file not found")
            /\ cli' = [exited |-> TRUE, code |-> 1, reported |-> NoError]
            /\ vresult' = vresult
       ELSE LET thrown == validateConfig(config) IN
            /\ vresult' = thrown
            /\ IF thrown = NoError
               THEN /\ log' = Append(log, "Configuration is valid!")
                    /\ cli' = cli
               ELSE /\ log' = Append(log, "Configuration is invalid:")
                    /\ cli' = [exited |-> TRUE, code |-> 1, reported |-> thrown]
  /\ pc' = "validated"
  /\ UNCHANGED <<config, stages, dirs, files, rendered, error, run, start, prev, ioOk,
                 prettierOk, call>>

VNext == CallValidationConfig \/ ValidateCommand

SpecValidate == VInit /\ [][VNext]_vars

----------------------------------------------------------------------------
(* The type-mapping tables.  Each is an object literal read as               *)
(* mapping[key] || fallback: a key the literal does not define is looked up  *)
(* on Object.prototype, whose properties (constructor, toString, ...) are    *)
(* functions, truthy, and so returned in place of the fallback.              *)

S_number == <<"n", "u", "m", "b", "e", "r">>
S_float == <<"f", "l", "o", "a", "t">>
S_json == <<"j", "s", "o", "n">>
S_uuid == <<"u", "u", "i", "d">>
S_constructor == <<"c", "o", "n", "s", "t", "r", "u", "c", "t", "o", "r">>
S_toString == <<"t", "o", "S", "t", "r", "i", "n", "g">>

\* property names every object literal inherits
ObjectPrototypeKeys == {S_constructor, S_toString}

\* what such a property holds: a function, no type token
InheritedFunction == "function"

\* mapping[key] || fallback
Lookup(mapping, key, fallback) ==
  IF key \in DOMAIN mapping THEN mapping[key]
  ELSE IF key \in ObjectPrototypeKeys THEN InheritedFunction
  ELSE fallback

PrismaMapping ==
  (S_string :> "String") @@ (S_email :> "String") @@ (S_number :> "Int") @@
  (S_float :> "Float") @@ (S_boolean :> "Boolean") @@ (S_date :> "DateTime") @@
  (S_json :> "Json")

\* PrismaGenerator.mapTypeToPrisma
mapTypeToPrisma(type) == Lookup(PrismaMapping, ToLowerCase(type), "String")

ZodMapping ==
  (S_string :> "z.string()") @@ (S_email :> "z.string().email()") @@
  (S_number :> "z.number().int()") @@ (S_float :> "z.number()") @@
  (S_boolean :> "z.boolean()") @@ (S_date :> "z.date()") @@ (S_json :> "z.any()")

\* ZodGenerator.mapToZodType
mapToZodType(type) == Lookup(ZodMapping, ToLowerCase(type), "z.string()")

OpenAPIMapping ==
  (S_string :> "string") @@ (S_email :> "string") @@ (S_number :> "integer") @@
  (S_float :> "number") @@ (S_boolean :> "boolean") @@ (S_date :> "string") @@
  (S_json :> "object")

\* OpenAPIGenerator.mapTypeToOpenAPIType
mapTypeToOpenAPIType(type) == Lookup(OpenAPIMapping, ToLowerCase(type), "string")

\* OpenAPIGenerator.generateFieldSchema: the type and the format of the
\* schema of a field of the given type
generateFieldSchema(type) ==
  [type |-> mapTypeToOpenAPIType(type),
   format |-> IF type = S_email THEN "email"
              ELSE IF type = S_date THEN "date-time"
              ELSE "none"]

TsMapping ==
  (S_string :> "string") @@ (S_email :> "string") @@ (S_number :> "number") @@
  (S_float :> "number") @@ (S_boolean :> "boolean") @@ (S_date :> "Date") @@
  (S_json :> "any")

\* CrudGenerator.mapFieldType: the key is the type as written
mapFieldType(fieldType) == Lookup(TsMapping, fieldType, "any")

----------------------------------------------------------------------------
(* SchemaParser.normalizeProjectName *)

Digits == {"0", "1", "2", "3", "4", "5", "6", "7", "8", "9"}

\* [a-z0-9-]
NameCharClass == {LowerLetters[i] : i \in DOMAIN LowerLetters} \cup Digits \cup {"-"}

\* .replace(/[^a-z0-9-]/g, "-")
ReplaceOthers(s) == [i \in 1..Len(s) |-> IF s[i] \in NameCharClass THEN s[i] ELSE "-"]

\* .replace(/-+/g, "-")
RECURSIVE CollapseHyphens(_)
CollapseHyphens(s) ==
  IF Len(s) <= 1 THEN s
  ELSE IF s[1] = "-" /\ s[2] = "-" THEN CollapseHyphens(Tail(s))
  ELSE <<s[1]>> \o CollapseHyphens(Tail(s))

\* .replace(/^-|-$/g, ""): one hyphen at the start and one at the end
StripHyphenEnds(s) ==
  LET a == IF s # <<>> /\ Head(s) = "-" THEN Tail(s) ELSE s
  IN IF a # <<>> /\ a[Len(a)] = "-" THEN SubSeq(a, 1, Len(a) - 1) ELSE a

normalizeProjectName_stripFirst(name) ==
  CollapseHyphens(StripHyphenEnds(ReplaceOthers(ToLowerCase(name))))

normalizeProjectName_noCollapse(name) ==
  StripHyphenEnds(ReplaceOthers(ToLowerCase(name)))

normalizeProjectName(name) ==
  StripHyphenEnds(CollapseHyphens(ReplaceOthers(ToLowerCase(name))))

----------------------------------------------------------------------------
(* Direct calls of the type-mapping tables on a type string *)

UpperChar(c) ==
  IF \E i \in DOMAIN LowerLetters : LowerLetters[i] = c
  THEN UpperLetters[CHOOSE i \in DOMAIN LowerLetters : LowerLetters[i] = c]
  ELSE c

ToUpperCase(s) == [i \in 1..Len(s) |-> UpperChar(s[i])]

Capitalize(s) == [i \in 1..Len(s) |-> IF i = 1 THEN UpperChar(s[i]) ELSE s[i]]

\* the seven abstract types
AbstractTypes == {S_string, S_email, S_number, S_float, S_boolean, S_date, S_json}

\* the type strings a field may carry: validation accepts any that is not blank
TypeInputs ==
  AbstractTypes
    \cup {ToUpperCase(t) : t \in AbstractTypes}
    \cup {Capitalize(t) : t \in AbstractTypes}
    \cup {S_uuid, ToUpperCase(S_uuid), S_constructor, S_toString}

NoSchema == [type |-> "pending", format |-> "pending"]

\* no generate in progress: the pipeline variables at rest
AtRest ==
  /\ config = Config(S_api, "rest", FALSE, Undefined)
  /\ pc = "idle"
  /\ stages = <<>>
  /\ dirs = {}
  /\ files = {}
  /\ rendered = <<>>
  /\ error = NoError
  /\ log = <<>>
  /\ run = 1
  /\ start = [config |-> config, dirs |-> {}, files |-> {}]
  /\ prev = NoPrev
  /\ ioOk = TRUE
  /\ vresult = NoError
  /\ prettierOk = TRUE
  /\ cli = NoExit

TInit ==
  /\ AtRest
  /\ call \in {[fn |-> "typeMapping", arg |-> t,
                result |-> [prisma |-> "pending", zod |-> "pending", openapi |-> NoSchema,
                            ts |-> "pending"]] : t \in TypeInputs}

pipelineVars == <<config, pc, stages, dirs, files, rendered, error, log, run, start, prev,
                  ioOk, vresult, prettierOk, cli>>

CallMapTypeToPrisma ==
  /\ call.fn = "typeMapping"
  /\ call.result.prisma = "pending"
  /\ call' = [call EXCEPT !.result.prisma = mapTypeToPrisma(call.arg)]
  /\ UNCHANGED pipelineVars

CallMapToZodType ==
  /\ call.fn = "typeMapping"
  /\ call.result.zod = "pending"
  /\ call' = [call EXCEPT !.result.zod = mapToZodType(call.arg)]
  /\ UNCHANGED pipelineVars

CallGenerateFieldSchema ==
  /\ call.fn = "typeMapping"
  /\ call.result.openapi = NoSchema
  /\ call' = [call EXCEPT !.result.openapi = generateFieldSchema(call.arg)]
  /\ UNCHANGED pipelineVars

CallMapFieldType ==
  /\ call.fn = "typeMapping"
  /\ call.result.ts = "pending"
  /\ call' = [call EXCEPT !.result.ts = mapFieldType(call.arg)]
  /\ UNCHANGED pipelineVars

TNext == CallMapTypeToPrisma \/ CallMapToZodType \/ CallGenerateFieldSchema \/ CallMapFieldType

SpecTypeMapping == TInit /\ [][TNext]_vars

----------------------------------------------------------------------------
(* Direct calls of SchemaParser.normalizeProjectName, on any string and on *)
(* its own result                                                          *)

\* longest project name of an input
MaxNameLen == 4

\* an upper-case letter, a lower-case letter, a digit, the hyphen and two
\* characters outside [a-z0-9-]
NameChars == {"A", "b", "7", "-", " ", "_"}

NInit ==
  /\ AtRest
  /\ call \in {[fn |-> "none", arg |-> x, result |-> <<>>] : x \in SeqsUpTo(NameChars, MaxNameLen)}

CallNormalizeProjectName ==
  /\ call.fn = "none"
  /\ call' = [fn |-> "normalizeProjectName", arg |-> call.arg,
              result |-> normalizeProjectName(call.arg)]
  /\ UNCHANGED pipelineVars

\* the result of the first call is the argument of the second
CallNormalizeProjectNameAgain ==
  /\ call.fn = "normalizeProjectName"
  /\ call' = [fn |-> "normalizeProjectName again", arg |-> call.result,
              result |-> normalizeProjectName(call.result)]
  /\ UNCHANGED pipelineVars

NNext == CallNormalizeProjectName \/ CallNormalizeProjectNameAgain

SpecNormalize == NInit /\ [][NNext]_vars

----------------------------------------------------------------------------
(* StringUtils, and the plural each renderer derives from a model name *)

\* String.prototype.endsWith
EndsWith(str, suffix) ==
  Len(str) >= Len(suffix) /\ SubSeq(str, Len(str) - Len(suffix) + 1, Len(str)) = suffix

\* str.slice(0, -n)
DropLast(str, n) == SubSeq(str, 1, Len(str) - n)

\* StringUtils.pluralize
pluralize(str) ==
  IF EndsWith(str, <<"y">>) THEN DropLast(str, 1) \o <<"i", "e", "s">>
  ELSE IF \/ EndsWith(str, <<"s">>) \/ EndsWith(str, <<"x">>)
          \/ EndsWith(str, <<"c", "h">>) \/ EndsWith(str, <<"s", "h">>)
  THEN str \o <<"e", "s">>
  ELSE str \o <<"s">>

singularize_noIes(str) ==
  IF EndsWith(str, <<"e", "s">>) THEN DropLast(str, 2)
  ELSE IF EndsWith(str, <<"s">>) THEN DropLast(str, 1)
  ELSE str

\* StringUtils.singularize
singularize(str) ==
  IF EndsWith(str, <<"i", "e", "s">>) THEN DropLast(str, 3) \o <<"y">>
  ELSE IF EndsWith(str, <<"e", "s">>) THEN DropLast(str, 2)
  ELSE IF EndsWith(str, <<"s">>) THEN DropLast(str, 1)
  ELSE str

\* \w
IsWordChar(c) ==
  \/ c \in {LowerLetters[i] : i \in DOMAIN LowerLetters}
  \/ c \in {UpperLetters[i] : i \in DOMAIN UpperLetters}
  \/ c \in Digits
  \/ c = "_"

\* .replace(/(?:^\w|[A-Z]|\b\w)/g, letter => letter.toUpperCase()): a word
\* character at the start or after a character that is none
UpperAtBoundaries(str) ==
  [i \in 1..Len(str) |->
     IF IsWordChar(str[i]) /\ (i = 1 \/ ~IsWordChar(str[i - 1]))
     THEN UpperChar(str[i]) ELSE str[i]]

\* StringUtils.toPascalCase
toPascalCase(str) ==
  LET upper == UpperAtBoundaries(str)
      noSpace == SelectSeq(upper, LAMBDA c : c \notin WhiteSpace)
  IN SelectSeq(noSpace, LAMBDA c : c \notin {"-", "_"})

\* StringUtils.toCamelCase
toCamelCase(str) ==
  LET pascal == toPascalCase(str) IN
    IF pascal = <<>> THEN <<>> ELSE <<LowerChar(pascal[1])>> \o Tail(pascal)

\* OpenAPIGenerator.generatePaths.  The paths object is the set of its keys:
\* assigning to a key that exists replaces its value.

\* the six keys written when withAuth
AuthPathKeys ==
  { <<"/", "auth", "/", "register">>, <<"/", "auth", "/", "login">>,
    <<"/", "auth", "/", "verify-email">>, <<"/", "auth", "/", "forgot-password">>,
    <<"/", "auth", "/", "reset-password">>, <<"/", "auth", "/", "profile">> }

\* `/${model.name.toLowerCase()}s`
basePath(model) == <<"/">> \o ToLowerCase(model.name) \o <<"s">>

\* `${basePath}/{id}`
idPath(model) == basePath(model) \o <<"/", "{id}">>

generatePaths(models, withAuth) ==
  LET ms == OpenAPIPathModels(models, withAuth) IN
    (IF withAuth THEN AuthPathKeys ELSE {})
      \cup UNION {{basePath(ms[i]), idPath(ms[i])} : i \in DOMAIN ms}

\* RestApiGenerator.generateRoutes: routePath
routePath(model) == ToLowerCase(model.name) \o <<"s">>

\* GraphQLGenerator.generateQueries: plural
queryPlural(model) == ToLowerCase(model.name) \o <<"s">>

----------------------------------------------------------------------------
(* Direct calls of StringUtils.pluralize and singularize on a word, and of *)
(* the renderers' plural on a model of that name                           *)

\* longest word of an input
MaxWordLen == 3

\* the letters the rules of pluralize and singularize test, an upper-case
\* letter and a letter they do not test
WordChars == {"B", "c", "e", "h", "i", "s", "x", "y"}

WInit ==
  /\ AtRest
  /\ call \in {[fn |-> "none", arg |-> w, result |-> <<>>] : w \in SeqsUpTo(WordChars, MaxWordLen)}

CallPluralize ==
  /\ call.fn = "none"
  /\ call' = [call EXCEPT !.fn = "pluralize", !.result = pluralize(call.arg)]
  /\ UNCHANGED pipelineVars

\* the plural is the argument of singularize
CallSingularize ==
  /\ call.fn = "pluralize"
  /\ call' = [call EXCEPT !.fn = "singularize", !.result = singularize(call.result)]
  /\ UNCHANGED pipelineVars

\* a model the validator accepts, of the given name
ModelNamed(name) == Model(name, Some(<<GoodField>>), FALSE)

CallGeneratePaths ==
  /\ call.fn = "none"
  /\ validateModel(ModelNamed(call.arg)) = NoError
  /\ call' = [call EXCEPT !.fn = "generatePaths", !.result = basePath(ModelNamed(call.arg))]
  /\ UNCHANGED pipelineVars

CallGenerateRoutes ==
  /\ call.fn = "none"
  /\ validateModel(ModelNamed(call.arg)) = NoError
  /\ call' = [call EXCEPT !.fn = "generateRoutes", !.result = routePath(ModelNamed(call.arg))]
  /\ UNCHANGED pipelineVars

CallGenerateQueries ==
  /\ call.fn = "none"
  /\ validateModel(ModelNamed(call.arg)) = NoError
  /\ call' = [call EXCEPT !.fn = "generateQueries", !.result = queryPlural(ModelNamed(call.arg))]
  /\ UNCHANGED pipelineVars

WNext ==
  \/ CallPluralize
  \/ CallSingularize
  \/ CallGeneratePaths
  \/ CallGenerateRoutes
  \/ CallGenerateQueries

SpecNaming == WInit /\ [][WNext]_vars

----------------------------------------------------------------------------
(* Direct calls of StringUtils.toPascalCase and toCamelCase *)

\* longest string of an input
MaxCaseLen == 4

\* a lower-case letter, an upper-case letter, a digit and the three
\* delimiters
CaseChars == {"a", "B", "1", " ", "-", "_"}

KInit ==
  /\ AtRest
  /\ call \in {[fn |-> "none", arg |-> x, result |-> <<>>] : x \in SeqsUpTo(CaseChars, MaxCaseLen)}

CallToPascalCase ==
  /\ call.fn = "none"
  /\ call' = [call EXCEPT !.fn = "toPascalCase", !.result = toPascalCase(call.arg)]
  /\ UNCHANGED pipelineVars

CallToCamelCase ==
  /\ call.fn = "none"
  /\ call' = [call EXCEPT !.fn = "toCamelCase", !.result = toCamelCase(call.arg)]
  /\ UNCHANGED pipelineVars

KNext == CallToPascalCase \/ CallToCamelCase

SpecCase == KInit /\ [][KNext]_vars

----------------------------------------------------------------------------
(* The field lists of the renderers: PrismaGenerator.generateModel,
   ZodGenerator.generateSchema, OpenAPIGenerator.generateModelSchema,
   CrudGenerator.generateEntity and GraphQLGenerator.generateType.  A
   rendered list is the sequence of its lines; a line keeps the field's name,
   whether it is marked required, and the default it carries ("none" when
   the line has no default).  The type column is the dialect's table. *)

S_id == <<"i", "d">>
S_createdAt == <<"c", "r", "e", "a", "t", "e", "d", "A", "t">>
S_updatedAt == <<"u", "p", "d", "a", "t", "e", "d", "A", "t">>

Line(n, req, def) == [name |-> n, required |-> req, default |-> def]

\* the test `field.default ? ... : ""`: undefined, false, 0 and '' are falsy
TruthyDefault(def) == def \notin {"absent", "false", "0", "''"}

\* PrismaGenerator.generateField: `?` unless required, @default(...) when
\* the default is truthy
generateField(field) ==
  Line(field.name, field.required,
       IF TruthyDefault(field.default) THEN field.default ELSE "none")

\* PrismaGenerator.generateModel
generateModel(model) ==
  LET fs == Val(model.fields) IN
    <<Line(S_id, TRUE, "uuid()")>>
    \o [i \in DOMAIN fs |-> generateField(fs[i])]
    \o (IF model.timestamps
        THEN <<Line(S_createdAt, TRUE, "now()"), Line(S_updatedAt, TRUE, "none")>>
        ELSE <<>>)

\* ZodGenerator.generateSchema with generateField: .optional() unless
\* required; the two timestamps are z.date().optional()
generateSchema(model) ==
  LET fs == Val(model.fields) IN
    <<Line(S_id, FALSE, "none")>>
    \o [i \in DOMAIN fs |-> Line(fs[i].name, fs[i].required, "none")]
    \o (IF model.timestamps
        THEN <<Line(S_createdAt, FALSE, "none"), Line(S_updatedAt, FALSE, "none")>>
        ELSE <<>>)

\* OpenAPIGenerator.generateModelSchema: the properties in insertion order,
\* a property required when its name is pushed onto `required`; the default
\* of generateFieldSchema is copied when `field.default !== undefined`
generateModelSchema(model) ==
  LET fs == Val(model.fields) IN
    <<Line(S_id, TRUE, "none")>>
    \o [i \in DOMAIN fs |->
          Line(fs[i].name, fs[i].required,
               IF fs[i].default # "absent" THEN fs[i].default ELSE "none")]
    \o (IF model.timestamps
        THEN <<Line(S_createdAt, TRUE, "none"), Line(S_updatedAt, TRUE, "none")>>
        ELSE <<>>)

\* CrudGenerator.generateEntity: `?` unless required; createdAt: Date;
\* updatedAt: Date;
generateEntity(model) ==
  LET fs == Val(model.fields) IN
    <<Line(S_id, TRUE, "none")>>
    \o [i \in DOMAIN fs |-> Line(fs[i].name, fs[i].required, "none")]
    \o (IF model.timestamps
        THEN <<Line(S_createdAt, TRUE, "none"), Line(S_updatedAt, TRUE, "none")>>
        ELSE <<>>)

\* GraphQLGenerator.generateType, the type block: `!` when required;
\* createdAt: String! updatedAt: String!
generateType(model) ==
  LET fs == Val(model.fields) IN
    <<Line(S_id, TRUE, "none")>>
    \o [i \in DOMAIN fs |-> Line(fs[i].name, fs[i].required, "none")]
    \o (IF model.timestamps
        THEN <<Line(S_createdAt, TRUE, "none"), Line(S_updatedAt, TRUE, "none")>>
        ELSE <<>>)

----------------------------------------------------------------------------
(* Direct calls of the five renderers on one model *)

RMaxFields == 2

\* the names of the declared fields, by position: distinct, none of them a
\* key the renderers add themselves
RFieldNames == <<S_title, S_name, S_email>>

\* absent, the falsy literals false, 0 and '', and a truthy literal
RDefaults == {"absent", "false", "0", "''", "'draft'"}

RFieldLists ==
  UNION {{[i \in 1..k |-> Field(RFieldNames[i], S_string, choice[i][1], FALSE, choice[i][2])] :
            choice \in [1..k -> BOOLEAN \X RDefaults]} :
         k \in 1..(IF RMaxFields < Len(RFieldNames) THEN RMaxFields ELSE Len(RFieldNames))}

RModels ==
  {generateAuthModel}
    \cup {Model(S_Post, Some(fs), ts) : fs \in RFieldLists, ts \in BOOLEAN}

NotRendered ==
  [prisma |-> Undefined, zod |-> Undefined, openapi |-> Undefined, entity |-> Undefined,
   graphql |-> Undefined]

RInit ==
  /\ AtRest
  /\ call \in {[fn |-> "render", arg |-> m, result |-> NotRendered] : m \in RModels}

CallGenerateModel ==
  /\ call.fn = "render"
  /\ call.result.prisma = Undefined
  /\ call' = [call EXCEPT !.result.prisma = Some(generateModel(call.arg))]
  /\ UNCHANGED pipelineVars

CallGenerateSchema ==
  /\ call.fn = "render"
  /\ call.result.zod = Undefined
  /\ call' = [call EXCEPT !.result.zod = Some(generateSchema(call.arg))]
  /\ UNCHANGED pipelineVars

CallGenerateModelSchema ==
  /\ call.fn = "render"
  /\ call.result.openapi = Undefined
  /\ call' = [call EXCEPT !.result.openapi = Some(generateModelSchema(call.arg))]
  /\ UNCHANGED pipelineVars

CallGenerateEntity ==
  /\ call.fn = "render"
  /\ call.result.entity = Undefined
  /\ call' = [call EXCEPT !.result.entity = Some(generateEntity(call.arg))]
  /\ UNCHANGED pipelineVars

CallGenerateType ==
  /\ call.fn = "render"
  /\ call.result.graphql = Undefined
  /\ call' = [call EXCEPT !.result.graphql = Some(generateType(call.arg))]
  /\ UNCHANGED pipelineVars

RNext ==
  \/ CallGenerateModel
  \/ CallGenerateSchema
  \/ CallGenerateModelSchema
  \/ CallGenerateEntity
  \/ CallGenerateType

SpecRender == RInit /\ [][RNext]_vars

----------------------------------------------------------------------------
(* InteractiveCLI.run: the answers typed at the prompts become the
   configuration.  PromptHelpers.validateModelName is the model-name
   validator of the prompts module; no prompt of InteractiveCLI calls it. *)

IMaxModels == 2

\* PromptHelpers.validateModelName: /^[A-Z][a-zA-Z0-9]*$/
validateModelName(name) ==
  /\ name # <<>>
  /\ name[1] \in UpperLetters
  /\ \A i \in 2..Len(name) : name[i] \in UpperLetters \cup LowerLetters \cup Digits

\* model names typed at the prompt: an upper-camel-case one, a lower-case
\* one, the empty line, one with a hyphen
INames == {S_Post, S_user, <<>>, <<"P", "-", "1">>}

\* defineModel's typeMap, read as typeMap[typeChoice] || "string"; the
\* choices typed are digits
typeMap ==
  (<<"1">> :> S_string) @@ (<<"2">> :> S_email) @@ (<<"3">> :> S_number) @@
  (<<"4">> :> S_boolean) @@ (<<"5">> :> S_date) @@ (<<"6">> :> S_json) @@
  (<<"7">> :> S_float)

TypeChoices == {<<"4">>, <<"9">>}

\* the answers object before the first prompt
NoAnswers == Config(UNDEF, "undefined", FALSE, Undefined)

IInit ==
  /\ config = NoAnswers
  /\ pc = "run"
  /\ stages = <<>>
  /\ dirs = {}
  /\ files = {}
  /\ rendered = <<>>
  /\ error = NoError
  /\ log = <<>>
  /\ run = 1
  /\ start = [config |-> config, dirs |-> {}, files |-> {}]
  /\ prev = NoPrev
  /\ ioOk = TRUE
  /\ vresult = NoError
  /\ prettierOk = TRUE
  /\ cli = NoExit
  /\ call = NoCall

\* run, prompts 1 to 4: project name, API type, database (PostgreSQL is
\* chosen), authentication; then answers.models = []
AskProject ==
  /\ pc = "run"
  /\ \E projectName \in {S_api}, apiChoice \in {"1", "2", "3"}, authentication \in BOOLEAN :
       config' = Config(projectName,
                        IF apiChoice = "2" THEN "graphql"
                        ELSE IF apiChoice = "3" THEN "both" ELSE "rest",
                        authentication, Some(<<>>))
  /\ pc' = "defineModel"
  /\ UNCHANGED <<stages, dirs, files, rendered, error, log, run, start, prev, ioOk, vresult,
                 prettierOk, cli, call>>

\* one turn of run's model loop: defineModel (the name as typed, one field,
\* the timestamps answer), the push onto answers.models, and the answer to
\* "Add another model?"
DefineModel ==
  /\ pc = "defineModel"
  /\ \E name \in INames, typeChoice \in TypeChoices, required \in BOOLEAN,
        timestamps \in BOOLEAN,
        addMoreModels \in (IF Len(Val(config.models)) + 1 < IMaxModels THEN BOOLEAN
                           ELSE {FALSE}) :
       LET type == IF typeChoice \in DOMAIN typeMap THEN typeMap[typeChoice] ELSE S_string
           model == Model(name, Some(<<Field(S_title, type, required, FALSE, "absent")>>),
                          timestamps)
       IN /\ config' = [config EXCEPT !.models = Some(Append(Val(config.models), model))]
          /\ pc' = IF addMoreModels THEN "defineModel" ELSE "confirm"
  /\ UNCHANGED <<stages, dirs, files, rendered, error, log, run, start, prev, ioOk, vresult,
                 prettierOk, cli, call>>

\* run, step 6: the confirmation; a refusal exits with 0, otherwise the
\* answers are returned
ConfirmGenerate ==
  /\ pc = "confirm"
  /\ \E confirmed \in BOOLEAN :
       IF confirmed
       THEN /\ pc' = "returned"
            /\ UNCHANGED <<log, cli>>
       ELSE /\ pc' = "cancelled"
            /\ log' = Append(log, "Project generation cancelled.")
            /\ cli' = [exited |-> TRUE, code |-> 0, reported |-> NoError]
  /\ UNCHANGED <<config, stages, dirs, files, rendered, error, run, start, prev, ioOk,
                 vresult, prettierOk, call>>

INext == AskProject \/ DefineModel \/ ConfirmGenerate

SpecInteractive == IInit /\ [][INext]_vars

----------------------------------------------------------------------------
(* Vocabulary of the properties *)

Range(seq) == {seq[i] : i \in DOMAIN seq}

IsPrefix(a, b) == Len(a) <= Len(b) /\ SubSeq(b, 1, Len(a)) = a

\* generate has returned or thrown
Ended == pc \in {"Finished", "Failed"}

\* generate has ended and validationConfig did not throw in it
EndedPastValidation == Ended /\ stages # <<"Validate">>

\* a name the validator takes for empty: absent, "" or whitespace only
Blank(x) == x = UNDEF \/ \A i \in DOMAIN x : x[i] \in WhiteSpace

EmptyList(o) == o = Undefined \/ Val(o) = <<>>

BadField(f) == Blank(f.name) \/ Blank(f.type)

BadModel(m) ==
  \/ Blank(m.name)
  \/ EmptyList(m.fields)
  \/ \E j \in DOMAIN Val(m.fields) : BadField(Val(m.fields)[j])

\* the error of the first rule m violates, in the order name, fields, each
\* field's name then type
FirstModelViolation(m) ==
  IF Blank(m.name) THEN Err("ModelNameRequired", UNDEF)
  ELSE IF EmptyList(m.fields) THEN Err("ModelNoFields", m.name)
  ELSE LET fs == Val(m.fields)
           j == CHOOSE k \in DOMAIN fs :
                  BadField(fs[k]) /\ \A l \in 1..(k - 1) : ~BadField(fs[l])
       IN IF Blank(fs[j].name) THEN Err("FieldNameRequired", m.name)
          ELSE Err("FieldTypeRequired", m.name)

\* the error of the first violated rule of a configuration whose models
\* property is an array, NoError when no rule is violated
FirstViolation(cfg) ==
  LET ms == Val(cfg.models) IN
  IF Blank(cfg.projectName) THEN Err("ProjectNameRequired", UNDEF)
  ELSE IF ms = <<>> THEN Err("NoModels", UNDEF)
  ELSE IF \A i \in DOMAIN ms : ~BadModel(ms[i]) THEN NoError
  ELSE FirstModelViolation(
         ms[CHOOSE i \in DOMAIN ms : BadModel(ms[i]) /\ \A k \in 1..(i - 1) : ~BadModel(ms[k])])

\* a valid configuration as the validation rules have it
ValidConfig(cfg) ==
  /\ ~Blank(cfg.projectName)
  /\ cfg.models # Undefined
  /\ Val(cfg.models) # <<>>
  /\ \A i \in DOMAIN Val(cfg.models) :
       LET m == Val(cfg.models)[i] IN
         /\ ~Blank(m.name)
         /\ m.fields # Undefined
         /\ Val(m.fields) # <<>>
         /\ \A j \in DOMAIN Val(m.fields) :
              ~Blank(Val(m.fields)[j].name) /\ ~Blank(Val(m.fields)[j].type)

NamedUser(models) == {i \in DOMAIN models : models[i].name = S_User}

----------------------------------------------------------------------------
(* C1 *)

StageOrder ==
  <<"Validate", "InjectAuthModel", "CreateDirectories", "RenderSchema", "RenderValidation",
    "RenderAPIDoc", "RenderCrudLayer", "RenderRestApi", "RenderGraphQLApi",
    "RenderAuthSystem", "RenderProjectFiles", "RenderEntrypoint", "Done">>

\* whether the run of a configuration has the stage at all
StageApplies(stage, cfg) ==
  CASE stage = "InjectAuthModel" ->
         /\ cfg.authentication
         /\ cfg.models # Undefined
         /\ NamedUser(Val(cfg.models)) = {}
    [] stage = "RenderRestApi" -> cfg.apiType \in {"rest", "both"}
    [] stage = "RenderGraphQLApi" -> cfg.apiType \in {"graphql", "both"}
    [] stage = "RenderAuthSystem" -> cfg.authentication
    [] OTHER -> TRUE

StagesOf(cfg) == SelectSeq(StageOrder, LAMBDA s : StageApplies(s, cfg))

\* C1: in every run of generate the stages started so far are, in order and
\* without gap or repetition, the first stages of Validate, InjectAuthModel
\* (if an auth model is needed), CreateDirectories, RenderSchema,
\* RenderValidation, RenderAPIDoc, RenderCrudLayer, RenderRestApi and/or
\* RenderGraphQLApi (per apiType), RenderAuthSystem (if authentication),
\* RenderProjectFiles, RenderEntrypoint, Done; a run that returned has run
\* them all.  (The formatting of the project, between RenderEntrypoint and
\* Done, is no stage of the list.)
C1_StagesInOrder ==
  LET named == SelectSeq(stages, LAMBDA s : s # "FormatProject") IN
    /\ IsPrefix(named, StagesOf(start.config))
    /\ pc = "Finished" => named = StagesOf(start.config)
    /\ pc \notin {"Finished", "Failed"} =>
         /\ Len(named) < Len(StagesOf(start.config))
         /\ pc \in {StagesOf(start.config)[Len(named) + 1], "FormatProject"}

\* a run with an injected auth model that got to render the schema
C1_Witness ==
  /\ Len(stages) >= 4
  /\ stages[2] = "InjectAuthModel"
  /\ stages[4] = "RenderSchema"

----------------------------------------------------------------------------
(* C2 *)

\* C2: when validationConfig throws, generate ends with no directory
\* created, no file written, nothing rendered and the configuration, its
\* model list included, as the caller passed it.
C2_ValidationAbortsClean ==
  (pc = "Failed" /\ stages = <<"Validate">>) =>
    /\ dirs = start.dirs
    /\ files = start.files
    /\ rendered = <<>>
    /\ config = start.config

\* validation threw on a configuration that asks for authentication and has
\* no User model, in an empty output directory
C2_Witness ==
  /\ pc = "Failed"
  /\ stages = <<"Validate">>
  /\ error.type = "Error"
  /\ config.authentication
  /\ config.models # Undefined
  /\ NamedUser(Val(config.models)) = {}
  /\ dirs = {}
  /\ run = 1

----------------------------------------------------------------------------
(* C3, C4, C5: under SpecValidate *)

C4_ValidConfigPasses ==
  (pc = "returned" /\ ValidConfig(config)) => vresult = NoError

\* a valid configuration of two models, one of them with two fields
C4_Witness ==
  /\ pc = "returned"
  /\ ValidConfig(config)
  /\ Len(Val(config.models)) = 2
  /\ Len(Val(Val(config.models)[2].fields)) = 2
  /\ vresult = NoError

\* C5 as claimed: whenever a configuration contains a model whose field list
\* is empty, validationConfig fails with the no-fields error naming that
\* model.
C5_AnyEmptyFieldListNamed ==
  pc = "returned" =>
    \A i \in DOMAIN (IF config.models = Undefined THEN <<>> ELSE Val(config.models)) :
      LET m == Val(config.models)[i] IN
        m.fields = Some(<<>>) => vresult = Err("ModelNoFields", m.name)

\* C5 amended: when the empty field list of a model is the first violated
\* rule (the project name is not empty, every earlier model is valid and the
\* model has a name) validationConfig fails with the no-fields error naming
\* that model.
C5_FirstEmptyFieldListNamed ==
  pc = "returned" =>
    \A i \in DOMAIN (IF config.models = Undefined THEN <<>> ELSE Val(config.models)) :
      LET ms == Val(config.models) IN
        ( /\ ~Blank(config.projectName)
          /\ \A k \in 1..(i - 1) : ~BadModel(ms[k])
          /\ ~Blank(ms[i].name)
          /\ ms[i].fields = Some(<<>>) )
        => vresult = Err("ModelNoFields", ms[i].name)

\* the second model has a name and an empty field list, the first is valid
C5_Witness ==
  /\ pc = "returned"
  /\ ~Blank(config.projectName)
  /\ config.models # Undefined
  /\ Len(Val(config.models)) = 2
  /\ ~BadModel(Val(config.models)[1])
  /\ Val(config.models)[2].name = S_Post
  /\ Val(config.models)[2].fields = Some(<<>>)
  /\ vresult = Err("ModelNoFields", S_Post)

----------------------------------------------------------------------------
(* C6, C7, C8, C9 *)

\* C6: a run that got past validation on a configuration with
\* authentication and no model named exactly User ends with the model list
\* one longer: at index 0 the model User with the fields email (unique),
\* name, password, emailVerified (default false), all required, and
\* verificationToken, resetPasswordToken, resetPasswordExpires, all
\* optional; after it the original models in their order.
C6_UserInjectedFirst ==
  ( /\ EndedPastValidation
    /\ start.config.authentication
    /\ NamedUser(Val(start.config.models)) = {} )
  => LET before == Val(start.config.models)
         after == Val(config.models)
         fs == Val(after[1].fields)
     IN /\ Len(after) = Len(before) + 1
        /\ SubSeq(after, 2, Len(after)) = before
        /\ after[1].name = S_User
        /\ [i \in 1..Len(fs) |-> fs[i].name] =
             <<S_email, S_name, S_password, S_emailVerified, S_verificationToken,
               S_resetPasswordToken, S_resetPasswordExpires>>
        /\ [i \in 1..Len(fs) |-> fs[i].required] =
             <<TRUE, TRUE, TRUE, TRUE, FALSE, FALSE, FALSE>>
        /\ fs[1].unique
        /\ fs[4].default = "false"

\* such a run, on a list of two models one of which is named user
C6_Witness ==
  /\ EndedPastValidation
  /\ start.config.authentication
  /\ Len(Val(start.config.models)) = 2
  /\ NamedUser(Val(start.config.models)) = {}
  /\ S_user \in {Val(start.config.models)[i].name : i \in {1, 2}}
  /\ run = 1

\* C7: a run on a configuration with authentication that already has a model
\* named User injects none: the model list stays as it was, in length, order
\* and content, and it has one model named User if it had one before.
C7_NoSecondUser ==
  ( /\ Ended
    /\ start.config.authentication
    /\ start.config.models # Undefined
    /\ NamedUser(Val(start.config.models)) # {} )
  => /\ config.models = start.config.models
     /\ Cardinality(NamedUser(Val(start.config.models))) = 1 =>
          Cardinality(NamedUser(Val(config.models))) = 1

\* a first run past validation on a valid list whose first model is User
C7_Witness ==
  /\ EndedPastValidation
  /\ run = 1
  /\ start.config.authentication
  /\ Len(Val(start.config.models)) = 2
  /\ NamedUser(Val(start.config.models)) = {1}

\* C8: the configuration changes in a run only by the auth-model injection:
\* until InjectAuthModel has run it is the caller's, afterwards it is the
\* caller's with the User model put in front and stays so through every
\* later stage; with authentication false, or a User model present, it is
\* the caller's at every point of the run.
C8_OnlyInjectionMutates ==
  /\ "InjectAuthModel" \notin Range(stages) => config = start.config
  /\ "InjectAuthModel" \in Range(stages) =>
       /\ [config EXCEPT !.models = start.config.models] = start.config
       /\ Len(Val(config.models)) = Len(Val(start.config.models)) + 1
       /\ SubSeq(Val(config.models), 2, Len(Val(config.models))) = Val(start.config.models)
  /\ ( \/ ~start.config.authentication
       \/ start.config.models = Undefined
       \/ NamedUser(Val(start.config.models)) # {} ) => config = start.config

\* a run without authentication and without a User model that got past
\* the creation of the directories
C8_Witness ==
  /\ ~start.config.authentication
  /\ start.config.models # Undefined
  /\ NamedUser(Val(start.config.models)) = {}
  /\ Len(stages) >= 3
  /\ Ended

\* C9: when generate is called again on the same valid configuration object,
\* the second call injects no auth model (the model list after it is the
\* list after the first call) and hands the writer the same paths with the
\* same texts, in the same order, as the first call.
C9_SecondRunSame ==
  (run >= 2 /\ Ended /\ ValidConfig(start.config)) =>
    /\ config.models = prev.models
    /\ rendered = prev.rendered

\* a second call after a first call that injected the User model and
\* rendered the schema
C9_Witness ==
  /\ run = 2
  /\ Ended
  /\ ValidConfig(start.config)
  /\ "InjectAuthModel" \in Range(prev.stages)
  /\ prev.rendered # <<>>
  /\ rendered # <<>>

----------------------------------------------------------------------------
(* C10 *)

Names(models) == {models[i].name : i \in DOMAIN models}

\* the model lists of the generic CRUD/API-surface renderers: CRUD files,
\* REST controllers and routes, Express app, OpenAPI paths, GraphQL type
\* document, GraphQL resolvers, Apollo server
SurfaceRenderers(models, withAuth) ==
  <<CrudModels(models, withAuth), RestModels(models, withAuth),
    ExpressAppModels(models, withAuth), OpenAPIPathModels(models, withAuth),
    TypeDefsModels(models), ResolverModels(models, withAuth),
    ApolloServerModels(models, withAuth)>>

\* C10 as claimed: with authentication no generic CRUD/API-surface renderer
\* renders the model named User, and without authentication each of them
\* renders every model, a model named User included.
C10_UserSkippedEverywhere ==
  (Len(stages) >= 2 /\ pc # "InjectAuthModel") =>
    LET ms == Val(config.models)
        rs == SurfaceRenderers(ms, config.authentication)
    IN \A r \in DOMAIN rs :
         IF config.authentication THEN S_User \notin Names(rs[r]) ELSE rs[r] = ms

----------------------------------------------------------------------------
(* C11 *)

\* C11 as claimed: for every valid configuration the API document has one
\* collection path and one item path per non-auth model, 2 x (number of
\* non-auth models) model paths in all, and the six /auth paths if and only
\* if authentication is enabled.
C11_PathPairPerModel ==
  (Len(stages) >= 2 /\ pc # "InjectAuthModel" /\ ValidConfig(start.config)) =>
    LET ms == Val(config.models)
        nonAuth == SelectSeq(ms, LAMBDA m : ~(m.name = S_User /\ config.authentication))
        paths == generatePaths(ms, config.authentication)
    IN /\ Cardinality(paths \ AuthPathKeys) = 2 * Len(nonAuth)
       /\ \A i \in DOMAIN nonAuth : {basePath(nonAuth[i]), idPath(nonAuth[i])} \subseteq paths
       /\ config.authentication => AuthPathKeys \subseteq paths
       /\ ~config.authentication => paths \cap AuthPathKeys = {}

----------------------------------------------------------------------------
(* C12, C13: the artifacts of a run *)

\* the paths of the files in the output directory
Written == {f.path : f \in files}

\* the models of a configuration that are not the auth model
NonAuthModels(cfg) ==
  SelectSeq(Val(cfg.models), LAMBDA m : ~(m.name = S_User /\ cfg.authentication))

\* where in rendered a path was handed to the writer
RenderedAt(path) == {i \in DOMAIN rendered : rendered[i].path = path}

RestArtifactPaths(cfg) ==
  LET ms == NonAuthModels(cfg) IN
    UNION {{Path(<<"src", "presentation", "rest", "controllers">>, ms[i].name,
                 "Controller", "ts"),
            Path(<<"src", "presentation", "rest", "routes">>, ToLowerCase(ms[i].name),
                 ".routes", "ts")} : i \in DOMAIN ms}
      \cup {Path(<<"src", "infrastructure", "http", "express">>, <<>>, "app", "ts")}

GraphQLArtifactPaths(cfg) ==
  LET ms == NonAuthModels(cfg) IN
    {Path(<<"src", "presentation", "graphql", "resolvers">>, ToLowerCase(ms[i].name),
          ".resolvers", "ts") : i \in DOMAIN ms}
      \cup {Path(<<"src", "presentation", "graphql">>, <<>>, "typeDefs", "ts"),
            Path(<<"src", "infrastructure", "http", "graphql">>, <<>>, "server", "ts")}

AuthArtifactPaths ==
  {Path(<<"src", "application", "services">>, <<>>, "AuthService", "ts"),
   Path(<<"src", "presentation", "rest", "controllers">>, <<>>, "AuthController", "ts"),
   Path(<<"src", "presentation", "rest", "middlewares">>, <<>>, "auth.middleware", "ts"),
   Path(<<"src", "presentation", "rest", "routes">>, <<>>, "auth.routes", "ts")}

CrudArtifactPaths(model) ==
  {Path(<<"src", "domain", "repositories">>, model.name, "Repository", "ts"),
   Path(<<"src", "infrastructure", "database", "repositories">>, model.name,
        "RepositoryImpl", "ts"),
   Path(<<"src", "application", "use-cases">>, model.name, "UseCases", "ts"),
   Path(<<"src", "domain", "entities">>, model.name, "Entity", "ts")}

\* C12 as claimed: a run on a valid configuration in a working file system
\* writes the REST artifacts (a controller and a route module per non-auth
\* model and the application wiring file) if and only if apiType is rest or
\* both, and the GraphQL artifacts (the type document, a resolver module per
\* non-auth model and the server wiring file) if and only if apiType is
\* graphql or both; with both, every REST artifact is rendered before every
\* GraphQL artifact.
C12_ApiArtifactsPerApiType ==
  (Ended /\ ioOk /\ ValidConfig(start.config)) =>
    /\ config.apiType \in {"rest", "both"} => RestArtifactPaths(config) \subseteq Written
    /\ config.apiType = "graphql" => RestArtifactPaths(config) \cap Written = {}
    /\ config.apiType \in {"graphql", "both"} => GraphQLArtifactPaths(config) \subseteq Written
    /\ config.apiType = "rest" => GraphQLArtifactPaths(config) \cap Written = {}
    /\ config.apiType = "both" =>
         \A r \in RestArtifactPaths(config), g \in GraphQLArtifactPaths(config) :
           \A i \in RenderedAt(r), j \in RenderedAt(g) : i < j

\* C13 as claimed: a run on a valid configuration in a working file system
\* writes the four authentication artifacts (service, controller,
\* middleware, routes) when authentication is enabled, whatever the apiType,
\* and none of them when it is disabled; the CRUD artifact set (repository
\* interface, repository implementation, use cases, entity) is written for
\* each non-auth model, each artifact rendered once per model of that name.
C13_AuthAndCrudArtifacts ==
  (Ended /\ ioOk /\ ValidConfig(start.config)) =>
    LET ms == NonAuthModels(config) IN
      /\ config.authentication => AuthArtifactPaths \subseteq Written
      /\ ~config.authentication => AuthArtifactPaths \cap Written = {}
      /\ \A i \in DOMAIN ms :
           /\ CrudArtifactPaths(ms[i]) \subseteq Written
           /\ \A a \in CrudArtifactPaths(ms[i]) :
                Cardinality(RenderedAt(a)) =
                  Cardinality({k \in DOMAIN ms : ms[k].name = ms[i].name})

----------------------------------------------------------------------------
(* C14, C15, C16: failures *)

\* the (path, text) pairs the statements of a stage hand to the writer
StageWrites(stage, cfg) ==
  IF stage \notin OpStages THEN <<>>
  ELSE LET ws == SelectSeq(StageOps(stage, cfg), LAMBDA o : o.op = "write")
       IN [i \in 1..Len(ws) |-> [path |-> ws[i].path, content |-> ws[i].content]]

\* the error of a failed file write: mkdirSync, or the text step of writeFile
IsWriteError(e) == e.type # "none" /\ e.rule \in {"mkdirSync", "code.replace"}

\* C14: when a file write fails in a stage after validation, generate ends
\* with that error in flight (the step where the error arises is the step
\* where generate fails); of the stage's artifacts those before the failing
\* write, and no other, have been handed to the writer and written, the
\* failing one is not written and none after it is rendered; no directory
\* or file that existed before is removed; and once generate has failed, no
\* later stage runs and nothing more is rendered, written or created in
\* that call.
C14_WriteFailurePropagates ==
  [][ /\ (error = NoError /\ error' # NoError /\ stages # <<>>) =>
           LET W == StageWrites(pc, config) IN
             /\ pc' = "Failed"
             /\ dirs \subseteq dirs'
             /\ files \subseteq files'
             /\ \E k \in 0..Len(W) :
                  /\ rendered' = rendered \o SubSeq(W, 1, k)
                  /\ \A j \in 1..(k - 1) : W[j].path \in {f.path : f \in files'}
                  /\ files' \ files \subseteq {W[j] : j \in 1..(k - 1)}
                  /\ IsWriteError(error') /\ pc \in OpStages => k >= 1
      /\ pc = "Failed" =>
           /\ dirs' = dirs /\ files' = files
           /\ pc' \in {"Failed", "Validate"}
           /\ pc' = "Failed" => rendered' = rendered /\ stages' = stages /\ error' = error
           /\ pc' = "Validate" => run' = run + 1
    ]_vars

\* a run whose first file write failed after the directories were created:
\* the directories are in place, the artifact of the failed write is not
C14_Witness ==
  /\ pc = "Failed"
  /\ IsWriteError(error)
  /\ Len(stages) >= 3
  /\ dirs # {}
  /\ Len(rendered) = 1
  /\ rendered[1].path \notin Written

\* C15 as claimed: when the text formatter fails on the artifacts, a run on a
\* valid configuration in a working file system is not aborted: it returns
\* (reaches Done), a warning is logged and the artifacts are kept
\* unformatted.
C15_FormatterNeverAborts ==
  (Ended /\ ~prettierOk /\ ioOk /\ ValidConfig(start.config)) =>
    /\ pc = "Finished"
    /\ "Warning: Could not format" \in Range(log)
    /\ files # {}
    /\ \A f \in files : f.content.fmt = "raw"

\* C16: the success message is logged only by a run that returned, with
\* every stage of its configuration completed and no error; a run that
\* failed, in validation or in a file write, has logged no success message;
\* and when the generate command has exited it is with code 1, after a
\* failed run, having reported "Failed to generate project" with the error
\* generate threw.
C16_SuccessOnlyWhenComplete ==
  /\ "Project generated successfully!" \in Range(log) =>
       /\ pc = "Finished"
       /\ error = NoError
       /\ SelectSeq(stages, LAMBDA s : s # "FormatProject") = StagesOf(start.config)
  /\ pc = "Failed" =>
       /\ error # NoError
       /\ "Project generated successfully!" \notin Range(log)
  /\ cli.exited =>
       /\ cli.code = 1
       /\ pc = "Failed"
       /\ cli.reported = error
       /\ error # NoError
       /\ "Failed to generate project" \in Range(log)

\* the command exited after a file write failed in a run past validation
C16_Witness ==
  /\ cli.exited
  /\ cli.code = 1
  /\ IsWriteError(cli.reported)
  /\ Len(stages) >= 3
  /\ "Project generated successfully!" \notin Range(log)

----------------------------------------------------------------------------
(* C17, C18: under SpecTypeMapping *)

PrismaTokens == {"String", "Int", "Float", "Boolean", "DateTime", "Json"}
ZodTokens == {"z.string()", "z.string().email()", "z.number().int()", "z.number()",
              "z.boolean()", "z.date()", "z.any()"}
OpenAPITokens == {"string", "integer", "number", "boolean", "object"}
TsTokens == {"string", "number", "boolean", "Date", "any"}

\* C17 as claimed: each of the four tables answers every type string, the
\* seven abstract types and any other, with a token of its dialect, and
\* answers a type string as it answers the same string in lower case.
C17_TablesTotalCaseInsensitive ==
  call.fn = "typeMapping" =>
    LET r == call.result
        lower == ToLowerCase(call.arg)
    IN /\ r.prisma # "pending" =>
            r.prisma \in PrismaTokens /\ r.prisma = mapTypeToPrisma(lower)
       /\ r.zod # "pending" =>
            r.zod \in ZodTokens /\ r.zod = mapToZodType(lower)
       /\ r.openapi # NoSchema =>
            r.openapi.type \in OpenAPITokens /\ r.openapi = generateFieldSchema(lower)
       /\ r.ts # "pending" =>
            r.ts \in TsTokens /\ r.ts = mapFieldType(lower)

\* the documented rows: schema, validation, API document (type and format)
\* and language token of each abstract type
DocumentedTokens ==
  (S_string :> <<"String", "z.string()", "string", "none", "string">>) @@
  (S_email :> <<"String", "z.string().email()", "string", "email", "string">>) @@
  (S_number :> <<"Int", "z.number().int()", "integer", "none", "number">>) @@
  (S_float :> <<"Float", "z.number()", "number", "none", "number">>) @@
  (S_boolean :> <<"Boolean", "z.boolean()", "boolean", "none", "boolean">>) @@
  (S_date :> <<"DateTime", "z.date()", "string", "date-time", "Date">>) @@
  (S_json :> <<"Json", "z.any()", "object", "none", "any">>)

\* the documented row of a type that is none of the seven
DocumentedFallback == <<"String", "z.string()", "string", "none", "any">>

\* C18 as claimed: each of the seven abstract types maps to its documented
\* token in each table, and a type string that is none of the seven, in any
\* letter case, maps to String, z.string(), string (no format) and any.
C18_DocumentedTokens ==
  (call.fn = "typeMapping" /\ (call.arg \in AbstractTypes
                                 \/ ToLowerCase(call.arg) \notin AbstractTypes)) =>
    LET r == call.result
        row == IF call.arg \in AbstractTypes THEN DocumentedTokens[call.arg]
               ELSE DocumentedFallback
    IN /\ r.prisma # "pending" => r.prisma = row[1]
       /\ r.zod # "pending" => r.zod = row[2]
       /\ r.openapi # NoSchema => r.openapi = [type |-> row[3], format |-> row[4]]
       /\ r.ts # "pending" => r.ts = row[5]

----------------------------------------------------------------------------
(* C19, C20: under SpecNormalize *)

\* C19: normalizeProjectName applied to a result of normalizeProjectName
\* returns it unchanged.
C19_NormalizeIdempotent ==
  call.fn = "normalizeProjectName again" => call.result = call.arg

\* the second call on a-b7, the result of a first call, returns a-b7
C19_Witness ==
  /\ call.fn = "normalizeProjectName again"
  /\ call.arg = <<"a", "-", "b", "7">>
  /\ call.result = <<"a", "-", "b", "7">>

\* C20: the result of normalizeProjectName, for any input string, has only
\* characters of [a-z0-9-], neither begins nor ends with a hyphen and has
\* no two hyphens in a row.
C20_NormalizedShape ==
  call.fn = "normalizeProjectName" =>
    LET r == call.result IN
      /\ \A i \in DOMAIN r : r[i] \in NameCharClass
      /\ r # <<>> => r[1] # "-" /\ r[Len(r)] # "-"
      /\ \A i \in 1..(Len(r) - 1) : ~(r[i] = "-" /\ r[i + 1] = "-")

\* an upper-case letter, a space and an underscore in a row, and a letter:
\* the two replaced characters give one hyphen
C20_Witness ==
  /\ call.fn = "normalizeProjectName"
  /\ call.arg = <<"A", " ", "_", "b">>
  /\ call.result = <<"a", "-", "b">>

----------------------------------------------------------------------------
(* C21, C23: under SpecNaming *)

EndsInSibilant(w) ==
  \/ EndsWith(w, <<"s">>) \/ EndsWith(w, <<"x">>)
  \/ EndsWith(w, <<"c", "h">>) \/ EndsWith(w, <<"s", "h">>)

\* C21 as claimed: for every word that does not end in s, x, ch or sh,
\* singularize(pluralize(w)) = w.
C21_RoundTripNonSibilant ==
  (call.fn = "singularize" /\ ~EndsInSibilant(call.arg)) => call.result = call.arg

\* C21 amended: for every word that ends neither in s, x, ch or sh nor in e,
\* singularize(pluralize(w)) = w; words ending in y are among them.
C21_RoundTripNonSibilantNonE ==
  (call.fn = "singularize" /\ ~EndsInSibilant(call.arg) /\ ~EndsWith(call.arg, <<"e">>))
    => call.result = call.arg

\* a word ending in y went to ...ies and came back
C21_Witness ==
  /\ call.fn = "singularize"
  /\ call.arg = <<"B", "c", "y">>
  /\ call.result = <<"B", "c", "y">>

\* C23 as claimed: the plural a renderer derives from a model name (the
\* OpenAPI collection path, the REST route path, the GraphQL list query) is
\* pluralize applied to the lower-cased name, in every one of them.
C23_RenderersUsePluralize ==
  LET plural == pluralize(ToLowerCase(call.arg)) IN
    /\ call.fn = "generatePaths" => call.result = <<"/">> \o plural
    /\ call.fn = "generateRoutes" => call.result = plural
    /\ call.fn = "generateQueries" => call.result = plural

----------------------------------------------------------------------------
(* C26: under SpecCase *)

Delimiters == {" ", "-", "_"}

\* the words of a string concatenated without the delimiters, the first
\* character of each word in upper case
RECURSIVE WordsCapitalized(_, _)
WordsCapitalized(str, atWordStart) ==
  IF str = <<>> THEN <<>>
  ELSE IF Head(str) \in Delimiters THEN WordsCapitalized(Tail(str), TRUE)
  ELSE <<IF atWordStart THEN UpperChar(Head(str)) ELSE Head(str)>>
         \o WordsCapitalized(Tail(str), FALSE)

\* C26 as claimed: for every string of words separated by spaces, hyphens
\* or underscores, toPascalCase returns the words concatenated without the
\* delimiters, each with its first letter in upper case, and toCamelCase
\* returns that with its first letter in lower case.
C26_PascalAndCamelCase ==
  LET pascal == WordsCapitalized(call.arg, TRUE) IN
    /\ call.fn = "toPascalCase" => call.result = pascal
    /\ call.fn = "toCamelCase" =>
         call.result = IF pascal = <<>> THEN <<>> ELSE <<LowerChar(pascal[1])>> \o Tail(pascal)

----------------------------------------------------------------------------
(* C22: under SpecValidate *)

\* the validate command ran on a configuration file that exists
Validated == pc = "validated" /\ log # <<"Config file not found">>

\* C22 as claimed: the validate command reports a configuration that
\* breaks no validation rule as valid (the success line, no exit with 1) and
\* a configuration that breaks one as invalid with exit code 1.
C22_ValidateCommandVerdict ==
  Validated =>
    IF ValidConfig(config)
    THEN log = <<"Configuration is valid!">> /\ ~cli.exited
    ELSE cli.exited /\ cli.code = 1

----------------------------------------------------------------------------
(* C24, C25: under SpecRender *)

\* C24 as claimed: the schema-definition renderer gives a declared field a
\* default clause exactly when the field has a default, the falsy literals
\* false, 0 and '' included (the injected User's emailVerified default
\* false), and no clause when the default is absent.
C24_DefaultClauseWhenPresent ==
  (call.fn = "render" /\ call.result.prisma # Undefined) =>
    LET fs == Val(call.arg.fields)
        lines == Val(call.result.prisma)
    IN \A i \in DOMAIN fs :
         /\ lines[i + 1].name = fs[i].name
         /\ fs[i].default # "absent" => lines[i + 1].default = fs[i].default
         /\ fs[i].default = "absent" => lines[i + 1].default = "none"

\* the field lists rendered so far
RenderedLists ==
  {Val(call.result[r]) : r \in {r \in DOMAIN call.result : call.result[r] # Undefined}}

\* the lines of a rendered list after the id line and the declared fields
AfterDeclared(lines, model) == SubSeq(lines, Len(Val(model.fields)) + 2, Len(lines))

\* C25 as claimed: with timestamps every renderer that lists fields appends
\* exactly createdAt and updatedAt after the declared fields, which keep
\* their order, and all renderers mark the two the same way (required or
\* optional); without timestamps no renderer emits either.
C25_TimestampsIdentical ==
  call.fn = "render" =>
    LET fs == Val(call.arg.fields) IN
      /\ \A lines \in RenderedLists :
           /\ \A i \in DOMAIN fs : lines[i + 1].name = fs[i].name
           /\ [i \in DOMAIN AfterDeclared(lines, call.arg) |->
                 AfterDeclared(lines, call.arg)[i].name]
                = IF call.arg.timestamps THEN <<S_createdAt, S_updatedAt>> ELSE <<>>
      /\ \A a, b \in RenderedLists :
           \A i \in DOMAIN AfterDeclared(a, call.arg) :
             AfterDeclared(a, call.arg)[i].required = AfterDeclared(b, call.arg)[i].required

----------------------------------------------------------------------------
(* C27: under SpecInteractive *)

\* C27 as claimed: every model name in a configuration returned by
\* InteractiveCLI.run matches ^[A-Z][a-zA-Z0-9]*$; a name typed at the
\* prompt that does not match is never placed in the configuration.
C27_InteractiveNamesUpperCamel ==
  (pc \in {"defineModel", "confirm", "returned"}) =>
    \A i \in DOMAIN Val(config.models) : validateModelName(Val(config.models)[i].name)

----------------------------------------------------------------------------
(* C28: under Spec *)

\* the file writes of generate's statements from stage on, in order
RECURSIVE WritesFrom(_, _)
WritesFrom(stage, cfg) ==
  IF stage \notin OpStages THEN <<>>
  ELSE StageWrites(stage, cfg) \o WritesFrom(NextStage(stage, cfg), cfg)

----------------------------------------------------------------------------
(* C29: under SpecValidate *)

\* the rules of validationConfig and validateModel
ValidationRules ==
  {"ProjectNameRequired", "NoModels", "ModelNameRequired", "ModelNoFields",
   "FieldNameRequired", "FieldTypeRequired"}

\* C29 as claimed: for every configuration object, one without a models
\* property, one with a model without fields and ones with whitespace-only
\* names included, validationConfig either returns true or throws the error
\* of one of its validation rules; it never fails with any other error.
C29_ValidatorOutcomes ==
  pc = "returned" =>
    \/ vresult = NoError
    \/ vresult.type = "Error" /\ vresult.rule \in ValidationRules

----------------------------------------------------------------------------
(* C30: under SpecNormalize *)

\* validationConfig's project-name rule lets the name pass
ProjectNameAccepted(projectName) == ~(Falsy(projectName) \/ Trim(projectName) = <<>>)

\* C30 as claimed: for every project name validationConfig accepts, the
\* package name normalizeProjectName gives, the one written to the package
\* manifest, is not empty.
C30_PackageNameNonEmpty ==
  (call.fn = "normalizeProjectName" /\ ProjectNameAccepted(call.arg)) => call.result # <<>>

====
